---- MODULE Spec2Model ----
(***************************************************************************)
(* Verification model of the MFEM backend assembly code:                   *)
(*   backends/omp/bilinearform.cpp  (omp::BilinearForm, ConstrainedOperator)*)
(*   backends/occa/array.hpp        (occa::Array)                          *)
(*   fem/tmop_pa_h2m.cpp            (TMOP_Integrator::AddMultGradPA_2D)    *)
(* Buffers live in a heap `mem` (slot -> contents); a vector object is a   *)
(* reference to a slot, so aliasing (MakeRef) is a shared slot.  Entries   *)
(* are exact integers; constraint indices are 0-based as in the code.      *)
(***************************************************************************)
EXTENDS Integers, Sequences, FiniteSets, TLC

\* ------------------------------------------------------------ bounds
\* number of degrees of freedom of the vectors of the ConstrainedOperator model
NDof == 3
\* entries of the drawn input vectors range over 0..MaxVal
MaxVal == 1
\* number of Mult / EliminateRHS / Solve calls explored after construction
MaxOps == 2
\* number of integrators attached to a form
MaxInteg == 2
\* number of coordinator calls explored on one form
MaxCalls == 2
\* largest PA.maps->ndof and PA.maps->nqpt explored
MaxD1D == 6
MaxQ1D == 18
\* largest Layout size (in items) of an occa::Array
MaxLayout == 2
\* number of device allocations alive at one time
MaxBufs == 3
\* sizeof(T) of the items of an occa::Array, in bytes
ItemSize == 8

VARIABLES
  mem,        \* heap: slot name -> sequence of entries
  coA,        \* ConstrainedOperator::A (the wrapped operator)
  coL,        \* ConstrainedOperator::constraint_list (0-based indices)
  coOp,       \* the last ConstrainedOperator call made ("none" after construction)
  coPre,      \* the heap right before the last call that may write it
  coN,        \* number of calls made
  dbfi,       \* bform->GetDBFI(): the attached device-agnostic integrators
  tbfi,       \* BilinearForm::tbfi, the device-specialized integrators
  has_assembled,     \* BilinearForm::has_assembled
  element_matrices,  \* BilinearForm::element_matrices: device data and host mirror
  spmat,      \* bform->SpMat(), the caller-owned sparse structure
  mat_e,      \* BilinearForm::mat_e, the eliminated part
  hA,         \* the OperatorHandle A: its Type() and what Ptr() is
  ref,        \* which heap slot each of the vectors x, b, X, B refers to
  cfg,        \* the form's surroundings: prolongation, IntegType(), MPI build, ess_tdof_list
  status,     \* "ok", or "abort" once a fatal error ended the process
  steps,      \* the steps the last FormLinearSystem ran, with X and B after each
  call,       \* the last coordinator call and the form's state when it was entered
  ncalls,     \* number of coordinator calls made
  arr,        \* the occa::Array objects: layout, data, slice
  bufs,       \* the device allocations: byte size, device, items
  linked,     \* a MakeRef between the two arrays has been made
  grown,      \* since the last MakeRef, a Resize asked for more bytes than the
              \* array's data held, or for another device
  lp,         \* the parallel index loop under way: which loop, its source and
              \* destination buffers, whether its iterations have joined, and
              \* whether some iteration wrote before an earlier one had
  lpc,        \* per iteration of the loop: "read", "write" or "done"
  ltmp,       \* per iteration of the loop: the value it has read
  pa,         \* TMOP_Integrator::PA: setup, maps->ndof, maps->nqpt
  kern        \* the kernel the last AddMultGradPA_2D ran: its template and
              \* run-time sizes

coVars == <<mem, coA, coL, coOp, coPre, coN>>
formVars == <<dbfi, tbfi, has_assembled, element_matrices, spmat, mat_e, hA, ref, cfg,
              status, steps, call, ncalls>>
arrVars == <<arr, bufs, linked, grown>>
loopVars == <<lp, lpc, ltmp>>
tmopVars == <<pa, kern>>
vars == <<coVars, formVars, arrVars, loopVars, tmopVars>>

\* heap slots: the caller's x and b, the buffers X and B own, an output
\* buffer y, and the scratch buffers z and w of a ConstrainedOperator
Slots == {"sx", "sb", "sX", "sB", "sy", "sz", "sw"}

\* ------------------------------------------------------------ helpers
Vals == 0..MaxVal

\* all vectors of length n with entries in S
VecSet(n, S) == [1..n -> S]

RECURSIVE SumTo(_, _)
\* sum of f[1] + ... + f[n]
SumTo(f, n) == IF n = 0 THEN 0 ELSE f[n] + SumTo(f, n - 1)

\* matrix-vector product, M a sequence of rows
MatVec(M, v) == [i \in 1..Len(M) |-> SumTo([j \in 1..Len(v) |-> M[i][j] * v[j]], Len(v))]

\* The linear maps the wrapped operator is drawn from, and one affine
\* (non-linear) map: a ConstrainedOperator treats A as a black box.
OpMatrix(kind, n) ==
  [i \in 1..n |-> [j \in 1..n |->
     CASE kind = "twoI"    -> IF i = j THEN 2 ELSE 0
       [] kind = "laplace" -> IF i = j THEN 2 ELSE IF i - j \in {-1, 1} THEN -1 ELSE 0
       [] kind = "upper"   -> IF j >= i THEN 1 ELSE 0
       [] OTHER            -> IF i = j THEN 1 ELSE 0]]

OpOffset(kind, n) == [i \in 1..n |-> IF kind = "affine" THEN i ELSE 0]

OpKinds == {"twoI", "laplace", "upper", "affine"}
LinearKinds == OpKinds \ {"affine"}

\* element idx (0-based) of a buffer
At(v, idx) == v[idx + 1]

\* the set of indices a constraint list names
IndexSet(L) == {L[k] : k \in 1..Len(L)}

RECURSIVE Ascending(_, _)
\* the indices of S below n, ascending
Ascending(S, n) ==
  IF n = 0 THEN <<>>
  ELSE IF (n - 1) \in S THEN Append(Ascending(S, n - 1), n - 1) ELSE Ascending(S, n - 1)

Reverse(s) == [k \in 1..Len(s) |-> s[Len(s) + 1 - k]]

\* constraint lists: valid, pairwise-distinct indices; every subset in ascending
\* order, and the full list in descending order
ConstraintLists(n) ==
  {Ascending(S, n) : S \in SUBSET (0..(n - 1))} \cup {Reverse(Ascending(0..(n - 1), n))}

\* ------------------------------------------------------------ mesh and spaces
\* A 1D mesh of NDof-1 two-node elements; element e has the dofs e, e+1.
NE == NDof - 1
ElDofs == 2

\* FiniteElementSpace::ToEVector: scatter a local vector to element-local form
ToEVector(v) == [k \in 1..(NE * ElDofs) |-> v[((k - 1) \div ElDofs) + ((k - 1) % ElDofs) + 1]]

\* FiniteElementSpace::ToLVector: sum the element-local entries at shared dofs
ToLVector(e) ==
  [d \in 1..NDof |->
     SumTo([k \in 1..(NE * ElDofs) |->
              IF ((k - 1) \div ElDofs) + ((k - 1) % ElDofs) + 1 = d THEN e[k] ELSE 0],
           NE * ElDofs)]

\* the dense element matrix of one specialized integrator on element e (0-based),
\* row-major: the 1D diffusion stencil scaled by the integrator's coefficient and
\* by e+1 (elements of different sizes)
ElementMatrix(integ, e) ==
  LET c == integ.coeff * (e + 1) IN <<c, -c, -c, c>>

\* Integrator::MultAdd: y_local += (block-diagonal element matrices) x_local
Integ_MultAdd(integ, xl, yl) ==
  [k \in 1..(NE * ElDofs) |->
     yl[k] + SumTo([c \in 1..ElDofs |->
                      ElementMatrix(integ, (k - 1) \div ElDofs)[((k - 1) % ElDofs) * ElDofs + c]
                      * xl[((k - 1) \div ElDofs) * ElDofs + c]], ElDofs)]

RECURSIVE MultAddAll(_, _, _, _)
\* for (i = 0; i < tbfi.Size(); i++) tbfi[i]->MultAdd(x_local, y_local), from i on
MultAddAll(list, i, xl, yl) ==
  IF i > Len(list) THEN yl
  ELSE MultAddAll(list, i + 1, xl, Integ_MultAdd(list[i], xl, yl))

\* BilinearForm::Mult: y = ToLVector(sum of the integrators' actions on ToEVector(x))
BilinearForm_Mult(v) ==
  ToLVector(MultAddAll(tbfi, 1, ToEVector(v), [k \in 1..(NE * ElDofs) |-> 0]))

\* The conforming prolongation P, when one exists: NDof-1 true dofs, the last
\* local dof identified with true dof 0.
NTrue == NDof - 1
TrueOf(i) == IF i < NTrue THEN i ELSE 0
Prolong(t) == [i \in 1..NDof |-> t[TrueOf(i - 1) + 1]]
ProlongT(v) ==
  [j \in 1..NTrue |-> SumTo([i \in 1..NDof |-> IF TrueOf(i - 1) + 1 = j THEN v[i] ELSE 0], NDof)]
Restrict(v) == [j \in 1..NTrue |-> v[j]]

\* Operator::Mult of the operator a ConstrainedOperator wraps, on contents
OperatorApply(A, v) ==
  CASE A.kind = "matrix" ->
         LET Av == MatVec(OpMatrix(A.name, Len(v)), v)
         IN  [i \in 1..Len(v) |-> Av[i] + OpOffset(A.name, Len(v))[i]]
    [] A.kind = "form" -> BilinearForm_Mult(v)
    [] OTHER -> ProlongT(BilinearForm_Mult(Prolong(v)))

\* A->Mult(src, dst) on the heap
Operator_Mult(m, A, src, dst) == [m EXCEPT ![dst] = OperatorApply(A, m[src])]

\* ------------------------------------------------------------ buffers
\* Vector::Fill(value)
Fill(m, a, value) == [m EXCEPT ![a] = [i \in 1..Len(m[a]) |-> value]]

\* Vector::Assign(src): element-wise copy
Assign(m, dst, src) == [m EXCEPT ![dst] = [i \in 1..Len(m[dst]) |-> m[src][i]]]

\* Vector::Axpby(a, x, b, y): this = a*x + b*y
Axpby(m, dst, a, x, b, y) ==
  [m EXCEPT ![dst] = [i \in 1..Len(m[dst]) |-> a * m[x][i] + b * m[y][i]]]

\* ------------------------------------------------------------ ConstrainedOperator
RECURSIVE ZeroEntries(_, _, _, _)
\* for (i = 0; i < num_constraint; i++) a_data[constraint_data[i]] = 0.0, from i on
ZeroEntries(m, a, L, i) ==
  IF i > Len(L) THEN m
  ELSE ZeroEntries([m EXCEPT ![a][L[i] + 1] = 0], a, L, i + 1)

RECURSIVE CopyEntries(_, _, _, _, _)
\* for (i = 0; i < num_constraint; i++)
\*    dst_data[constraint_data[i]] = src_data[constraint_data[i]], from i on
CopyEntries(m, dst, src, L, i) ==
  IF i > Len(L) THEN m
  ELSE CopyEntries([m EXCEPT ![dst][L[i] + 1] = m[src][L[i] + 1]], dst, src, L, i + 1)

\* the Mult that omits z[constraint_list] = 0.0
ConstrainedOperator_Mult_NoZero(m, A, L, x, y) ==
  IF Len(L) = 0 THEN Operator_Mult(m, A, x, y)
  ELSE CopyEntries(Operator_Mult(Assign(m, "sz", x), A, "sz", y), y, x, L, 1)

\* ConstrainedOperator::Mult(mfem_x, mfem_y), with scratch buffer z
ConstrainedOperator_Mult(m, A, L, x, y) ==
  IF Len(L) = 0 THEN Operator_Mult(m, A, x, y)
  ELSE LET m1 == Assign(m, "sz", x)
           m2 == ZeroEntries(m1, "sz", L, 1)
           m3 == Operator_Mult(m2, A, "sz", y)
       IN  CopyEntries(m3, y, x, L, 1)

\* the EliminateRHS that omits the final b[constraint_list] = x[constraint_list]
ConstrainedOperator_EliminateRHS_NoReimpose(m, A, L, x, b) ==
  LET m1 == Fill(m, "sw", 0)
      m2 == IF Len(L) > 0 THEN CopyEntries(m1, "sw", x, L, 1) ELSE m1
      m3 == Operator_Mult(m2, A, "sw", "sz")
  IN  Axpby(m3, b, 1, b, -1, "sz")

\* the EliminateRHS that omits w.Fill(0.0)
ConstrainedOperator_EliminateRHS_NoFill(m, A, L, x, b) ==
  LET m2 == IF Len(L) > 0 THEN CopyEntries(m, "sw", x, L, 1) ELSE m
      m3 == Operator_Mult(m2, A, "sw", "sz")
      m4 == Axpby(m3, b, 1, b, -1, "sz")
  IN  IF Len(L) > 0 THEN CopyEntries(m4, b, x, L, 1) ELSE m4

\* ConstrainedOperator::EliminateRHS(mfem_x, mfem_b), with scratch buffers w and z
ConstrainedOperator_EliminateRHS(m, A, L, x, b) ==
  LET m1 == Fill(m, "sw", 0)
      m2 == IF Len(L) > 0 THEN CopyEntries(m1, "sw", x, L, 1) ELSE m1
      m3 == Operator_Mult(m2, A, "sw", "sz")
      m4 == Axpby(m3, b, 1, b, -1, "sz")
  IN  IF Len(L) > 0 THEN CopyEntries(m4, b, x, L, 1) ELSE m4

\* ------------------------------------------------------------ occa::Array
Devices == {"host", "gpu"}
Layouts == [size : 0..MaxLayout, dev : Devices]
ArrayNames == {"a", "b"}

\* the item values written through an array, and the value standing for an item
\* of a fresh allocation that was not written yet
ItemVals == {0, 1}
Unwritten == 2

\* the items of a fresh allocation of the given byte size
FreshItems(bytes) == [i \in 1..(bytes \div ItemSize) |-> Unwritten]

NoBuf == [size |-> 0, dev |-> "none", items |-> <<>>]

\* the handle of the next allocation: the first one not in use
FreeId(bs) == CHOOSE k \in 1..MaxBufs : bs[k] = NoBuf /\ \A j \in 1..(k - 1) : bs[j] # NoBuf

\* Layout::Alloc(bytes): the allocation table with one more allocation
Alloc(bs, lt, bytes) ==
  [bs EXCEPT ![FreeId(bs)] = [size |-> bytes, dev |-> lt.dev, items |-> FreshItems(bytes)]]

\* the handle an allocation is known by once the arrays are settled: the data of
\* "a" is allocation 1, the data of "b", when it is another one, allocation 2
HandleOf(arrs, k) == IF k = arrs["a"].data THEN 1 ELSE 2

\* the arrays with their handles renamed
Settled(arrs) ==
  [n \in ArrayNames |->
     [arrs[n] EXCEPT !.data = HandleOf(arrs, @), !.slice.buf = HandleOf(arrs, @)]]

\* ::occa::memory is reference counted: an allocation no array's data refers
\* to any more is freed; the allocations left, under their settled handles
Release(bs, arrs) ==
  [k \in 1..MaxBufs |->
     IF k = 1 THEN bs[arrs["a"].data]
     ELSE IF k = 2 /\ arrs["b"].data # arrs["a"].data THEN bs[arrs["b"].data]
     ELSE NoBuf]

\* Array::Array(lt, item_size): data(lt.Alloc(lt.Size()*item_size)), slice(data)
NewArray(lt, id) ==
  [layout |-> lt, data |-> id, slice |-> [buf |-> id, len |-> lt.size * ItemSize]]

\* the ResizeData that reallocates whenever the byte count changes
ResizeData_AlwaysRealloc(A, bs, lt) ==
  LET new_bytes == lt.size * ItemSize
  IN  IF A.slice.len # new_bytes \/ bs[A.data].dev # lt.dev
      THEN [arr |-> [A EXCEPT !.data = FreeId(bs),
                              !.slice = [buf |-> FreeId(bs), len |-> new_bytes]],
            bufs |-> Alloc(bs, lt, new_bytes)]
      ELSE [arr |-> A, bufs |-> bs]

\* the ResizeData that keeps the slice it has when the data is large enough
ResizeData_NoReslice(A, bs, lt) ==
  LET new_bytes == lt.size * ItemSize
  IN  IF bs[A.data].size < new_bytes \/ bs[A.data].dev # lt.dev
      THEN [arr |-> [A EXCEPT !.data = FreeId(bs),
                              !.slice = [buf |-> FreeId(bs), len |-> new_bytes]],
            bufs |-> Alloc(bs, lt, new_bytes)]
      ELSE [arr |-> A, bufs |-> bs]

\* Array::ResizeData(lt, item_size) of the array A: the array and the
\* allocations afterwards
ResizeData(A, bs, lt) ==
  LET new_bytes == lt.size * ItemSize
  IN  IF bs[A.data].size < new_bytes \/ bs[A.data].dev # lt.dev
      THEN [arr |-> [A EXCEPT !.data = FreeId(bs),
                              !.slice = [buf |-> FreeId(bs), len |-> new_bytes]],
            bufs |-> Alloc(bs, lt, new_bytes)]
      ELSE IF A.slice.len # new_bytes
      THEN [arr |-> [A EXCEPT !.slice = [buf |-> A.data, len |-> new_bytes]],
            bufs |-> bs]
      ELSE [arr |-> A, bufs |-> bs]

\* Array::MakeRef(master): layout, data and slice of the master
MakeRef(master) == [layout |-> master.layout, data |-> master.data, slice |-> master.slice]

\* the items seen through an array's slice
SliceItems(A, bs) == SubSeq(bs[A.slice.buf].items, 1, A.slice.len \div ItemSize)

\* write items through an array's slice: the allocation table afterwards
WriteSlice(A, bs, items) ==
  [bs EXCEPT ![A.slice.buf].items =
     [i \in 1..Len(bs[A.slice.buf].items) |->
        IF i <= A.slice.len \div ItemSize THEN items[i] ELSE bs[A.slice.buf].items[i]]]

\* Array::OccaFill(val_ptr): operator_eq(slice, *val_ptr)
OccaFill(A, bs, val) == WriteSlice(A, bs, [i \in 1..(A.slice.len \div ItemSize) |-> val])

\* no occa::Array in use
ArrIdle ==
  /\ arr = [n \in ArrayNames |-> NewArray([size |-> 0, dev |-> "host"], 1)]
  /\ bufs = [k \in 1..MaxBufs |-> NoBuf]
  /\ linked = FALSE
  /\ grown = FALSE

\* ------------------------------------------------------------ TMOP_Integrator
\* the limits the generic kernel is verified against
MAX_D1D == 14
MAX_Q1D == 14
RECURSIVE BitOr(_, _)
\* a | b on non-negative integers
BitOr(a, b) ==
  IF a = 0 THEN b
  ELSE IF b = 0 THEN a
  ELSE (IF a % 2 = 1 \/ b % 2 = 1 THEN 1 ELSE 0) + 2 * BitOr(a \div 2, b \div 2)

\* const int id = (D1D << 4 ) | Q1D; for the sizes explored D1D << 4 is far
\* below the largest int, so the shift does not overflow
DispatchId(D1D, Q1D) == BitOr(D1D * 16, Q1D)

\* the case labels of the switch, 0x21 .. 0x56, with the template arguments
\* <d, q, 1> of the kernel each returns
Cases == {[label |-> 16 * d + q, d |-> d, q |-> q] : d \in 2..5, q \in 1..6}

\* switch (id): the kernel run for the sizes D1D, Q1D
Dispatch(D1D, Q1D) ==
  LET id == DispatchId(D1D, Q1D)
  IN  IF \E c \in Cases : c.label = id
      THEN LET c == CHOOSE c \in Cases : c.label = id
           IN  [kind |-> "specialized", T_D1D |-> c.d, T_Q1D |-> c.q, d1d |-> 0, q1d |-> 0]
      ELSE IF D1D <= MAX_D1D /\ Q1D <= MAX_Q1D
      THEN [kind |-> "generic", T_D1D |-> 0, T_Q1D |-> 0, d1d |-> D1D, q1d |-> Q1D]
      ELSE [kind |-> "abort", T_D1D |-> 0, T_Q1D |-> 0, d1d |-> D1D, q1d |-> Q1D]

NoKernel == [kind |-> "none", T_D1D |-> 0, T_Q1D |-> 0, d1d |-> 0, q1d |-> 0]

\* no TMOP integrator in use
TmopIdle ==
  /\ pa = [setup |-> FALSE, ndof |-> 1, nqpt |-> 1]
  /\ kern = NoKernel

\* an integrator whose PA.maps hold any sizes, before its first gradient
TmopInit ==
  /\ pa \in [setup : {FALSE}, ndof : 1..MaxD1D, nqpt : 1..MaxQ1D]
  /\ kern = NoKernel

\* no parallel loop under way
LoopIdle ==
  /\ lp = [kind |-> "none", src |-> "sx", dst |-> "sx", joined |-> FALSE, reordered |-> FALSE]
  /\ lpc = <<>>
  /\ ltmp = <<>>

\* two arrays constructed on layouts of their own
ArrInit ==
  /\ \E la \in Layouts, lb \in Layouts :
        /\ arr = [n \in ArrayNames |-> IF n = "a" THEN NewArray(la, 1) ELSE NewArray(lb, 2)]
        /\ bufs = [k \in 1..MaxBufs |->
                     IF k = 1 THEN [size |-> la.size * ItemSize, dev |-> la.dev,
                                    items |-> FreshItems(la.size * ItemSize)]
                     ELSE IF k = 2 THEN [size |-> lb.size * ItemSize, dev |-> lb.dev,
                                         items |-> FreshItems(lb.size * ItemSize)]
                     ELSE NoBuf]
  /\ linked = FALSE
  /\ grown = FALSE

\* PArray::Resize(new_layout) -> DoResize: ResizeData, and the layout replaced
Arr_Resize ==
  \E n \in ArrayNames, lt \in Layouts :
    \E r \in {ResizeData(arr[n], bufs, lt)} :
      /\ arr' = Settled([arr EXCEPT ![n] = [r.arr EXCEPT !.layout = lt]])
      /\ bufs' = Release(r.bufs, [arr EXCEPT ![n] = r.arr])
      /\ grown' = (grown \/ (linked /\ (lt.size * ItemSize > bufs[arr[n].data].size
                                          \/ lt.dev # bufs[arr[n].data].dev)))
      /\ UNCHANGED <<tmopVars, loopVars, coVars, formVars, linked>>

\* n.MakeRef(master)
Arr_MakeRef ==
  \E n \in ArrayNames, master \in ArrayNames :
    /\ n # master
    /\ arr' = Settled([arr EXCEPT ![n] = MakeRef(arr[master])])
    /\ bufs' = Release(bufs, [arr EXCEPT ![n] = MakeRef(arr[master])])
    /\ linked' = TRUE
    /\ grown' = FALSE
    /\ UNCHANGED <<tmopVars, loopVars, coVars, formVars>>

\* n.Fill(value)
Arr_Fill ==
  \E n \in ArrayNames, val \in ItemVals :
    /\ bufs' = OccaFill(arr[n], bufs, val)
    /\ UNCHANGED <<tmopVars, loopVars, coVars, formVars, arr, linked, grown>>

\* n.Assign(src): element-wise copy, the layouts being of one size
Arr_Assign ==
  \E n \in ArrayNames, src \in ArrayNames :
    /\ n # src
    /\ arr[n].layout.size = arr[src].layout.size
    /\ bufs' = WriteSlice(arr[n], bufs, SliceItems(arr[src], bufs))
    /\ UNCHANGED <<tmopVars, loopVars, coVars, formVars, arr, linked, grown>>

\* n.PushData(src_buffer): the host buffer's items written to the slice
Arr_Push ==
  \E n \in ArrayNames :
    /\ bufs' = WriteSlice(arr[n], bufs,
                          [i \in 1..(arr[n].slice.len \div ItemSize) |-> i % 2])
    /\ UNCHANGED <<tmopVars, loopVars, coVars, formVars, arr, linked, grown>>

\* n.PullData(buffer): the slice's items read to the host, the array unchanged
Arr_Pull ==
  \E n \in ArrayNames :
    /\ SliceItems(arr[n], bufs) \in Seq(ItemVals \cup {Unwritten})
    /\ UNCHANGED <<tmopVars, loopVars, coVars, formVars, arr, bufs, linked, grown>>

ArrNext == Arr_Resize \/ Arr_MakeRef \/ Arr_Fill \/ Arr_Assign \/ Arr_Push \/ Arr_Pull

\* ------------------------------------------------------------ BilinearForm
Types == {"ANY_TYPE", "MFEM_SPARSEMAT", "Hypre_ParCSR", "PETSC_MATAIJ"}

ZeroMat(n) == [i \in 1..n |-> [j \in 1..n |-> 0]]

\* the state of a form right after construction: nothing attached, nothing assembled
FormFresh ==
  /\ dbfi = <<>>
  /\ tbfi = <<>>
  /\ has_assembled = FALSE
  /\ element_matrices = [alloc |-> FALSE, dev |-> <<>>, host |-> <<>>]
  /\ spmat = [alloc |-> FALSE, a |-> ZeroMat(NDof)]
  /\ mat_e = ZeroMat(NDof)
  /\ hA = [type |-> "ANY_TYPE", ptr |-> "null", a |-> ZeroMat(NDof)]
  /\ ref = [v \in {"x", "b", "X", "B"} |->
              CASE v = "x" -> "sx" [] v = "b" -> "sb" [] v = "X" -> "sX" [] OTHER -> "sB"]
  /\ status = "ok"
  /\ steps = <<>>
  /\ call = [op |-> "none", assembled |-> FALSE, ntbfi |-> 0, ranCEM |-> FALSE,
              ranMult |-> FALSE, type |-> "ANY_TYPE", copy |-> FALSE,
              emPre |-> [alloc |-> FALSE, dev |-> <<>>, host |-> <<>>],
              spPre |-> [alloc |-> FALSE, a |-> ZeroMat(NDof)]]
  /\ ncalls = 0

RECURSIVE TransferIntegrators(_, _, _)
\* BilinearForm::TransferIntegrators from dbfi[i] on: the list appended to and
\* whether a fatal error (MFEM_ABORT, mfem_error) ended it
TransferIntegrators(list, i, integType) ==
  IF i > Len(dbfi) THEN [tbfi |-> list, aborted |-> FALSE]
  ELSE IF dbfi[i].name = "(undefined)" THEN [tbfi |-> list, aborted |-> TRUE]
  ELSE IF dbfi[i].name = "diffusion"
       THEN IF integType = "Acrotensor"
            THEN TransferIntegrators(Append(list, [name |-> "diffusion", coeff |-> dbfi[i].coeff]),
                                     i + 1, integType)
            ELSE [tbfi |-> list, aborted |-> TRUE]
  ELSE [tbfi |-> list, aborted |-> TRUE]

\* the Assemble that lacks the has_assembled guard
AssembleResult_NoGuard ==
  LET r == TransferIntegrators(tbfi, 1, cfg.integType)
  IN  [tbfi |-> r.tbfi, aborted |-> r.aborted, has_assembled |-> (~r.aborted) \/ has_assembled]

\* BilinearForm::Assemble: the integrator list and flag it leaves
AssembleResult ==
  IF ~has_assembled
  THEN LET r == TransferIntegrators(tbfi, 1, cfg.integType)
       IN  [tbfi |-> r.tbfi, aborted |-> r.aborted, has_assembled |-> ~r.aborted]
  ELSE [tbfi |-> tbfi, aborted |-> FALSE, has_assembled |-> has_assembled]

\* the snapshot of the form taken when a coordinator call is entered
Entered(op, type) ==
  [op |-> op, assembled |-> has_assembled, ntbfi |-> Len(tbfi), ranCEM |-> FALSE,
   ranMult |-> FALSE, type |-> type, copy |-> FALSE, emPre |-> element_matrices,
   spPre |-> spmat]

\* the integrators a caller attaches
IntegItems ==
  {[name |-> "diffusion", coeff |-> 1], [name |-> "diffusion", coeff |-> 2],
   [name |-> "mass", coeff |-> 1], [name |-> "(undefined)", coeff |-> 1]}

\* essential dofs of the 1D mesh: the end points, in either order, or the dof
\* next to the first
EssLists(n) == {<<>>, <<0>>, <<n - 1>>, <<0, n - 1>>, <<n - 1, 0>>, <<1>>}

\* mfem::BilinearForm::AddDomainIntegrator: append to the list GetDBFI() returns
AddDomainIntegrator ==
  /\ status = "ok"
  /\ Len(dbfi) < MaxInteg
  /\ \E it \in IntegItems : dbfi' = Append(dbfi, it)
  /\ UNCHANGED <<tmopVars, loopVars, arrVars, coVars, tbfi, has_assembled, element_matrices, spmat, mat_e, hA, ref, cfg,
                 status, steps, call, ncalls>>

\* BilinearForm::Assemble()
Assemble ==
  /\ status = "ok"
  /\ tbfi' = AssembleResult.tbfi
  /\ has_assembled' = AssembleResult.has_assembled
  /\ status' = IF AssembleResult.aborted THEN "abort" ELSE "ok"
  /\ call' = Entered("Assemble", "ANY_TYPE")
  /\ UNCHANGED <<tmopVars, loopVars, arrVars, coVars, dbfi, element_matrices, spmat, mat_e, hA, ref, cfg, steps, ncalls>>

\* ---- element matrices
EMLength == NE * ElDofs * ElDofs

\* what freshly allocated, not yet written storage of n entries may hold
Uninit(n) == [k \in 1..n |-> MaxVal + k]

\* Integrator::ComputeElementMatrices(elmats): add the integrator's dense block of
\* every element into the element-major buffer
Integ_ComputeElementMatrices(integ, buf) ==
  [k \in 1..EMLength |->
     buf[k] + ElementMatrix(integ, (k - 1) \div (ElDofs * ElDofs))[((k - 1) % (ElDofs * ElDofs)) + 1]]

RECURSIVE AccumulateFrom(_, _, _)
\* for (k = ...; k < tbfi.Size(); k++) tbfi[k]->ComputeElementMatrices(elmats)
AccumulateFrom(list, k, buf) ==
  IF k > Len(list) THEN buf
  ELSE AccumulateFrom(list, k + 1, Integ_ComputeElementMatrices(list[k], buf))

\* the ComputeElementMatrices that lacks element_matrices->Fill(0.0)
ComputeElementMatrices_NoFill(em, list, ub) ==
  LET base == IF ~em.alloc
              THEN [alloc |-> TRUE, dev |-> Uninit(EMLength), host |-> Uninit(EMLength)]
              ELSE [em EXCEPT !.dev = em.host]
  IN  IF Len(list) = 0
      THEN [em |-> base, crashed |-> TRUE]
      ELSE [em |-> [base EXCEPT !.dev =
                      AccumulateFrom(list, 2, Integ_ComputeElementMatrices(list[1], base.dev))],
            crashed |-> FALSE]

\* BilinearForm::ComputeElementMatrices on the buffer em with the integrators
\* list.  tbfi[0] of an empty list is an out-of-bounds read: ub chooses between
\* the process crashing there and junk being added to the buffer.
ComputeElementMatrices(em, list, ub) ==
  LET base == IF ~em.alloc
              THEN [alloc |-> TRUE, dev |-> Uninit(EMLength), host |-> Uninit(EMLength)]
              ELSE [em EXCEPT !.dev = em.host]
      filled == [base EXCEPT !.dev = [k \in 1..EMLength |-> 0]]
  IN  IF Len(list) = 0
      THEN IF ub = "crash"
           THEN [em |-> filled, crashed |-> TRUE]
           ELSE [em |-> [filled EXCEPT !.dev = Uninit(EMLength)], crashed |-> FALSE]
      ELSE [em |-> [filled EXCEPT !.dev =
                      AccumulateFrom(list, 2, Integ_ComputeElementMatrices(list[1], filled.dev))],
            crashed |-> FALSE]

\* the outcomes of the out-of-bounds tbfi[0], which only an empty list reaches
UBOutcomes == IF Len(tbfi) = 0 THEN {"crash", "junk"} ELSE {"none"}

\* ---- the explicit sparse path
\* mat.AddSubMatrix(te_vdofs, tr_vdofs, elmat, skip_zeros) for every element, data
\* advancing one dense block per element; element e has the vdofs e, e+1
AddSubMatrices(a, data) ==
  [i \in 1..NDof |-> [j \in 1..NDof |->
     a[i][j] + SumTo([e \in 1..NE |->
                        IF (i - e) \in {0, 1} /\ (j - e) \in {0, 1}
                        THEN data[(e - 1) * ElDofs * ElDofs + (i - e) * ElDofs + (j - e) + 1]
                        ELSE 0], NE)]]

\* P^T a P for the prolongation P
PtAP(a) ==
  [i \in 1..NTrue |-> [j \in 1..NTrue |->
     SumTo([k \in 1..NDof |->
              SumTo([l \in 1..NDof |->
                       IF TrueOf(k - 1) + 1 = i /\ TrueOf(l - 1) + 1 = j THEN a[k][l] ELSE 0],
                    NDof)], NDof)]]

\* the system matrix with the rows and columns of L eliminated, the diagonal kept
Eliminated(a, L) ==
  [i \in 1..Len(a) |-> [j \in 1..Len(a) |->
     IF ((i - 1) \in IndexSet(L) \/ (j - 1) \in IndexSet(L)) /\ i # j THEN 0 ELSE a[i][j]]]

\* the entries elimination removed
EliminatedPart(a, L) ==
  [i \in 1..Len(a) |-> [j \in 1..Len(a) |->
     IF ((i - 1) \in IndexSet(L) \/ (j - 1) \in IndexSet(L)) /\ i # j THEN a[i][j] ELSE 0]]

\* size of the true-dof vectors X and B
TrueSize == IF cfg.hasP THEN NTrue ELSE NDof

\* BilinearForm::FormSystemMatrix(ess_tdof_list, A) for a handle of the given
\* type: everything the call leaves behind
FormSystemMatrix(type, ub) ==
  IF type = "ANY_TYPE"
  THEN [em |-> element_matrices, sp |-> spmat, me |-> mat_e,
        hA |-> [type |-> type, ptr |-> "constrained", a |-> ZeroMat(NDof)],
        coA |-> [kind |-> IF cfg.hasP THEN "rap" ELSE "form", name |-> "form"],
        coL |-> cfg.ess,
        mem |-> [mem EXCEPT !["sz"] = Uninit(TrueSize), !["sw"] = Uninit(TrueSize)],
        aborted |-> FALSE, ranCEM |-> FALSE]
  ELSE
    LET c == ComputeElementMatrices(element_matrices, tbfi, ub)
        sp1 == IF spmat.alloc THEN spmat ELSE [alloc |-> TRUE, a |-> ZeroMat(NDof)]
        em1 == [c.em EXCEPT !.host = c.em.dev]
        sp2 == [sp1 EXCEPT !.a = AddSubMatrices(sp1.a, em1.host)]
        sys == IF cfg.hasP THEN PtAP(sp2.a) ELSE sp2.a
    IN  IF c.crashed
        THEN [em |-> c.em, sp |-> spmat, me |-> mat_e, hA |-> hA, coA |-> coA, coL |-> coL,
              mem |-> mem, aborted |-> TRUE, ranCEM |-> TRUE]
        ELSE IF type = "MFEM_SPARSEMAT"
        THEN [em |-> em1, sp |-> sp2, me |-> EliminatedPart(sys, cfg.ess),
              hA |-> [type |-> type, ptr |-> "sparse", a |-> Eliminated(sys, cfg.ess)],
              coA |-> coA, coL |-> coL, mem |-> mem, aborted |-> FALSE, ranCEM |-> TRUE]
        ELSE IF type = "Hypre_ParCSR" /\ cfg.useMPI
        THEN [em |-> em1, sp |-> [sp2 EXCEPT !.a = ZeroMat(NDof)],
              me |-> EliminatedPart(sys, cfg.ess),
              hA |-> [type |-> type, ptr |-> "hypre", a |-> Eliminated(sys, cfg.ess)],
              coA |-> coA, coL |-> coL, mem |-> mem, aborted |-> FALSE, ranCEM |-> TRUE]
        ELSE [em |-> em1, sp |-> sp2, me |-> mat_e, hA |-> hA, coA |-> coA, coL |-> coL,
              mem |-> mem, aborted |-> TRUE, ranCEM |-> TRUE]

\* ---- right-hand side and initial guess
RECURSIVE ScatterBack(_, _, _, _, _)
\* for (i = 0; i < num_constraint; i++) X_data[constraint_data[i]] = subvec_data[i]
ScatterBack(m, X, L, subvec, i) ==
  IF i > Len(L) THEN m
  ELSE ScatterBack([m EXCEPT ![X][L[i] + 1] = subvec[i]], X, L, subvec, i + 1)

\* the complement zeroing that zeroes the constrained entries instead
SetSubVectorComplement_Inverted(m, X, L) == ZeroEntries(m, X, L, 1)

\* InitRHS, the copy_interior = false step: extract the constrained entries of X to
\* subvec, X.Fill(0.0), scatter subvec back
SetSubVectorComplement(m, X, L) ==
  LET subvec == [i \in 1..Len(L) |-> m[X][L[i] + 1]]
  IN  ScatterBack(Fill(m, X, 0), X, L, subvec, 1)

\* OperatorHandle::EliminateBC(A_e, ess_tdof_list, X, B) of an explicit matrix:
\* B -= A_e X, then B[i] = A[i][i] X[i] on the constrained rows
EliminateBC(m, a, ae, L, X, B) ==
  LET AeX == MatVec(ae, m[X])
  IN  [m EXCEPT ![B] = [i \in 1..Len(m[B]) |->
                          IF (i - 1) \in IndexSet(L) THEN a[i][i] * m[X][i]
                          ELSE m[B][i] - AeX[i]]]

\* one entry of the step log: the step, whether its condition let it run, and X
\* and B as seen after it
Step(op, ran, m, r) == [op |-> op, ran |-> ran, X |-> m[r["X"]], B |-> m[r["B"]]]

\* the InitRHS that copies x and b into X's and B's own storage instead of aliasing
InitRHS_Transform_Copy(m, r) ==
  [mem |-> [m EXCEPT !["sX"] = m[r["x"]], !["sB"] = m[r["b"]]],
   ref |-> [r EXCEPT !["X"] = "sX", !["B"] = "sB"]]

\* InitRHS, first step: with a prolongation B = P^T b and X = R x in storage of
\* their own, else X.MakeRef(x) and B.MakeRef(b)
InitRHS_Transform(m, r) ==
  IF cfg.hasP
  THEN [mem |-> [m EXCEPT !["sB"] = ProlongT(m[r["b"]]), !["sX"] = Restrict(m[r["x"]])],
        ref |-> [r EXCEPT !["X"] = "sX", !["B"] = "sB"]]
  ELSE [mem |-> m, ref |-> [r EXCEPT !["X"] = r["x"], !["B"] = r["b"]]]

\* the InitRHS that calls EliminateBC on the matrix-free representation and not
\* on the explicit ones
InitRHS_BCOnMatrixFree(f, copy_interior, log0) ==
  LET t  == InitRHS_Transform(f.mem, ref)
      r  == t.ref
      l1 == Append(log0, Step(IF cfg.hasP THEN "transform" ELSE "alias", TRUE, t.mem, r))
      bc == f.hA.type = "ANY_TYPE"
      m2 == IF bc THEN EliminateBC(t.mem, f.hA.a, f.me, cfg.ess, r["X"], r["B"]) ELSE t.mem
      l2 == Append(l1, Step("EliminateBC", bc, m2, r))
      zero == (~copy_interior) /\ Len(cfg.ess) > 0
      m3 == IF zero THEN SetSubVectorComplement(m2, r["X"], cfg.ess) ELSE m2
      l3 == Append(l2, Step("zero", zero, m3, r))
      rhs == f.hA.type = "ANY_TYPE"
      m4 == IF rhs THEN ConstrainedOperator_EliminateRHS(m3, f.coA, f.coL, r["X"], r["B"])
            ELSE m3
      l4 == Append(l3, Step("EliminateRHS", rhs, m4, r))
  IN  [mem |-> m4, ref |-> r, steps |-> l4]

\* BilinearForm::InitRHS after a FormSystemMatrix that left f: the heap, the
\* references and the steps run
InitRHS(f, copy_interior, log0) ==
  LET t  == InitRHS_Transform(f.mem, ref)
      r  == t.ref
      l1 == Append(log0, Step(IF cfg.hasP THEN "transform" ELSE "alias", TRUE, t.mem, r))
      bc == f.hA.type # "ANY_TYPE"
      m2 == IF bc THEN EliminateBC(t.mem, f.hA.a, f.me, cfg.ess, r["X"], r["B"]) ELSE t.mem
      l2 == Append(l1, Step("EliminateBC", bc, m2, r))
      zero == (~copy_interior) /\ Len(cfg.ess) > 0
      m3 == IF zero THEN SetSubVectorComplement(m2, r["X"], cfg.ess) ELSE m2
      l3 == Append(l2, Step("zero", zero, m3, r))
      rhs == f.hA.type = "ANY_TYPE"
      m4 == IF rhs THEN ConstrainedOperator_EliminateRHS(m3, f.coA, f.coL, r["X"], r["B"])
            ELSE m3
      l4 == Append(l3, Step("EliminateRHS", rhs, m4, r))
  IN  [mem |-> m4, ref |-> r, steps |-> l4]

\* ---- coordinator calls
\* BilinearForm::ComputeElementMatrices()
Call_ComputeElementMatrices ==
  /\ status = "ok"
  /\ ncalls < MaxCalls
  /\ \E ub \in UBOutcomes :
        \E c \in {ComputeElementMatrices(element_matrices, tbfi, ub)} :
            /\ element_matrices' = c.em
            /\ status' = IF c.crashed THEN "abort" ELSE "ok"
  /\ call' = [Entered("ComputeElementMatrices", "ANY_TYPE") EXCEPT !.ranCEM = TRUE]
  /\ ncalls' = ncalls + 1
  /\ UNCHANGED <<tmopVars, loopVars, arrVars, coVars, dbfi, tbfi, has_assembled, spmat, mat_e, hA, ref, cfg, steps>>

\* BilinearForm::FormSystemMatrix(ess_tdof_list, A)
Call_FormSystemMatrix ==
  /\ status = "ok"
  /\ ncalls < MaxCalls
  /\ \E type \in Types, ub \in UBOutcomes :
        \E f \in {FormSystemMatrix(type, ub)} :
            /\ element_matrices' = f.em
            /\ spmat' = f.sp
            /\ mat_e' = f.me
            /\ hA' = f.hA
            /\ coA' = f.coA
            /\ coL' = f.coL
            /\ mem' = f.mem
            /\ status' = IF f.aborted THEN "abort" ELSE "ok"
            /\ call' = [Entered("FormSystemMatrix", type) EXCEPT !.ranCEM = f.ranCEM]
  /\ ncalls' = ncalls + 1
  /\ coPre' = mem
  /\ UNCHANGED <<tmopVars, loopVars, arrVars, coOp, coN, dbfi, tbfi, has_assembled, ref, cfg, steps>>

\* BilinearForm::FormLinearSystem(ess_tdof_list, x, b, A, X, B, copy_interior)
Call_FormLinearSystem ==
  /\ status = "ok"
  /\ ncalls < MaxCalls
  /\ \E type \in Types, ub \in UBOutcomes, copy_interior \in BOOLEAN :
        \E f \in {FormSystemMatrix(type, ub)} :
          \E i \in {IF f.aborted THEN [mem |-> f.mem, ref |-> ref, steps |-> steps]
                     ELSE InitRHS(f, copy_interior, <<Step("FormSystemMatrix", TRUE, mem, ref)>>)} :
            /\ element_matrices' = f.em
            /\ spmat' = f.sp
            /\ mat_e' = f.me
            /\ hA' = f.hA
            /\ coA' = f.coA
            /\ coL' = f.coL
            /\ status' = IF f.aborted THEN "abort" ELSE "ok"
            /\ call' = [Entered("FormLinearSystem", type) EXCEPT !.ranCEM = f.ranCEM,
                                                                  !.copy = copy_interior]
            /\ mem' = i.mem
            /\ ref' = i.ref
            /\ steps' = i.steps
  /\ ncalls' = ncalls + 1
  /\ coPre' = mem
  /\ UNCHANGED <<tmopVars, loopVars, arrVars, coOp, coN, dbfi, tbfi, has_assembled, cfg>>

\* BilinearForm::RecoverFEMSolution(X, b, x), X sized as FormLinearSystem left it
Call_RecoverFEMSolution ==
  /\ status = "ok"
  /\ ncalls < MaxCalls
  /\ Len(mem[ref["X"]]) = TrueSize
  /\ mem' = IF cfg.hasP THEN [mem EXCEPT ![ref["x"]] = Prolong(mem[ref["X"]])] ELSE mem
  /\ call' = Entered("RecoverFEMSolution", "ANY_TYPE")
  /\ ncalls' = ncalls + 1
  /\ coPre' = mem
  /\ UNCHANGED <<tmopVars, loopVars, arrVars, coA, coL, coOp, coN, dbfi, tbfi, has_assembled, element_matrices,
                 spmat, mat_e, hA, ref, cfg, status, steps>>

\* BilinearForm::Mult(x, y) on the caller's local vector x
Call_Mult ==
  /\ status = "ok"
  /\ ncalls < MaxCalls
  /\ mem' = [mem EXCEPT !["sy"] = BilinearForm_Mult(mem[ref["x"]])]
  /\ call' = [Entered("Mult", "ANY_TYPE") EXCEPT !.ranMult = TRUE]
  /\ ncalls' = ncalls + 1
  /\ coPre' = mem
  /\ UNCHANGED <<tmopVars, loopVars, arrVars, coA, coL, coOp, coN, dbfi, tbfi, has_assembled, element_matrices,
                 spmat, mat_e, hA, ref, cfg, status, steps>>

\* A.Ptr()->Mult(X, y) on the operator FormSystemMatrix built (a solver's use of it)
Call_OperatorMult ==
  /\ status = "ok"
  /\ ncalls < MaxCalls
  /\ hA.ptr # "null"
  /\ Len(mem[ref["X"]]) = TrueSize
  /\ mem' = IF hA.ptr = "constrained"
            THEN ConstrainedOperator_Mult(mem, coA, coL, ref["X"], "sy")
            ELSE [mem EXCEPT !["sy"] = MatVec(hA.a, mem[ref["X"]])]
  /\ call' = [Entered("A.Mult", hA.type) EXCEPT !.ranMult = (hA.ptr = "constrained")]
  /\ ncalls' = ncalls + 1
  /\ coPre' = mem
  /\ UNCHANGED <<tmopVars, loopVars, arrVars, coA, coL, coOp, coN, dbfi, tbfi, has_assembled, element_matrices,
                 spmat, mat_e, hA, ref, cfg, status, steps>>

\* the caller (a solver, a boundary-value projection) writes one entry through
\* one of the vectors x, b, X, B
CallerWrite ==
  /\ status = "ok"
  /\ ncalls < MaxCalls
  /\ \E h \in {"x", "b", "X", "B"} :
        \E k \in {1, Len(mem[ref[h]])} \ {0} :
          mem' = [mem EXCEPT ![ref[h]][k] = mem[ref[h]][k] + MaxVal + 1]
  /\ call' = Entered("write", "ANY_TYPE")
  /\ ncalls' = ncalls + 1
  /\ coPre' = mem
  /\ UNCHANGED <<tmopVars, loopVars, arrVars, coA, coL, coOp, coN, dbfi, tbfi, has_assembled, element_matrices,
                 spmat, mat_e, hA, ref, cfg, status, steps>>

\* ---- the assembly life cycle of a form, from construction
\* the caller's vectors before any call: x and b hold data, X and B are empty
CallerMem(xv, bv) ==
  [s \in Slots |->
     CASE s = "sx" -> xv
       [] s = "sb" -> bv
       [] s = "sy" -> Uninit(NDof)
       [] OTHER -> <<>>]

NoOperator == [kind |-> "none", name |-> "none"]

AsmInit ==
  /\ ArrIdle
  /\ LoopIdle
  /\ TmopIdle
  /\ FormFresh
  /\ cfg \in {[hasP |-> FALSE, integType |-> "Acrotensor", useMPI |-> FALSE, ess |-> <<0>>],
               [hasP |-> FALSE, integType |-> "None", useMPI |-> FALSE, ess |-> <<0>>],
               [hasP |-> TRUE, integType |-> "Acrotensor", useMPI |-> TRUE, ess |-> <<>>]}
  /\ mem = CallerMem([i \in 1..NDof |-> i], [i \in 1..NDof |-> MaxVal])
  /\ coA = NoOperator
  /\ coL = <<>>
  /\ coOp = "none"
  /\ coPre = mem
  /\ coN = 0

AsmNext ==
  \/ AddDomainIntegrator
  \/ Assemble
  \/ Call_ComputeElementMatrices
  \/ Call_FormSystemMatrix
  \/ Call_Mult

SpecAsm == AsmInit /\ [][AsmNext]_vars

\* ---- forming and using the linear system of an assembled form
DiffusionLists ==
  {<<[name |-> "diffusion", coeff |-> 2], [name |-> "diffusion", coeff |-> 1]>>}

\* a form after AddDomainIntegrator(diffusion)... and Assemble()
SysInit ==
  /\ ArrIdle
  /\ LoopIdle
  /\ TmopIdle
  /\ dbfi \in DiffusionLists
  /\ tbfi = dbfi
  /\ has_assembled = TRUE
  /\ element_matrices = [alloc |-> FALSE, dev |-> <<>>, host |-> <<>>]
  /\ spmat = [alloc |-> FALSE, a |-> ZeroMat(NDof)]
  /\ mat_e = ZeroMat(NDof)
  /\ hA = [type |-> "ANY_TYPE", ptr |-> "null", a |-> ZeroMat(NDof)]
  /\ ref = [v \in {"x", "b", "X", "B"} |->
              CASE v = "x" -> "sx" [] v = "b" -> "sb" [] v = "X" -> "sX" [] OTHER -> "sB"]
  /\ \E p \in BOOLEAN :
        cfg \in [hasP : {p}, integType : {"Acrotensor"}, useMPI : {p},
                 ess : EssLists(IF p THEN NTrue ELSE NDof)]
  /\ status = "ok"
  /\ steps = <<>>
  /\ call = [op |-> "Assemble", assembled |-> FALSE, ntbfi |-> 0, ranCEM |-> FALSE,
              ranMult |-> FALSE, type |-> "ANY_TYPE", copy |-> FALSE,
              emPre |-> element_matrices, spPre |-> spmat]
  /\ ncalls = 0
  /\ mem = CallerMem([i \in 1..NDof |-> i + MaxVal], [i \in 1..NDof |-> MaxVal])
  /\ coA = NoOperator
  /\ coL = <<>>
  /\ coOp = "none"
  /\ coPre = mem
  /\ coN = 0

SysNext ==
  \/ Call_FormLinearSystem
  \/ Call_RecoverFEMSolution
  \/ Call_OperatorMult
  \/ CallerWrite

SpecSys == SysInit /\ [][SysNext]_vars

\* ---- the data-parallel index loops, one iteration per constrained index
\* the loops of ConstrainedOperator::Mult, ConstrainedOperator::EliminateRHS and
\* of the complement zeroing of InitRHS
LoopKinds ==
  {"Mult_zero", "Mult_copy", "EliminateRHS_w", "EliminateRHS_b", "InitRHS_gather",
   "InitRHS_scatter"}

\* the loops with the buffers they read (src) and write (dst): y of Mult and b of
\* EliminateRHS are buffers of their own or the buffer of x
Loops ==
  {[kind |-> "Mult_zero", src |-> "sz", dst |-> "sz"],
   [kind |-> "Mult_copy", src |-> "sx", dst |-> "sy"],
   [kind |-> "Mult_copy", src |-> "sx", dst |-> "sx"],
   [kind |-> "EliminateRHS_w", src |-> "sx", dst |-> "sw"],
   [kind |-> "EliminateRHS_b", src |-> "sx", dst |-> "sb"],
   [kind |-> "EliminateRHS_b", src |-> "sx", dst |-> "sx"],
   [kind |-> "InitRHS_gather", src |-> "sX", dst |-> "subvec"],
   [kind |-> "InitRHS_scatter", src |-> "subvec", dst |-> "sX"]}

\* the location (buffer, 0-based index) iteration i of the loop writes, with the
\* first index of the list taken for every iteration
WriteLoc_First(l, L, i) ==
  IF l.kind = "InitRHS_gather" THEN <<l.dst, 0>> ELSE <<l.dst, L[1]>>

\* the location (buffer, 0-based index) iteration i of the loop writes
WriteLoc(l, L, i) ==
  IF l.kind = "InitRHS_gather" THEN <<l.dst, i - 1>> ELSE <<l.dst, L[i]>>

\* the locations iteration i of the loop reads: none in z_data[...] = 0.0
ReadLocs(l, L, i) ==
  IF l.kind = "Mult_zero" THEN {}
  ELSE IF l.kind = "InitRHS_scatter" THEN {<<l.src, i - 1>>}
  ELSE {<<l.src, L[i]>>}

\* the loop run sequentially, i = 0, 1, ...
Sequential(l, m, L) ==
  CASE l.kind = "Mult_zero" -> ZeroEntries(m, l.dst, L, 1)
    [] l.kind = "InitRHS_gather" ->
         [m EXCEPT ![l.dst] = [i \in 1..Len(L) |-> At(m[l.src], L[i])]]
    [] l.kind = "InitRHS_scatter" -> ScatterBack(m, l.dst, L, m[l.src], 1)
    [] OTHER -> CopyEntries(m, l.dst, l.src, L, 1)

\* constraint lists that name an index twice
RepeatingLists == {<<0, 0>>, <<1, 0, 1>>}

\* a loop entered on a list of valid indices, all its iterations about to start
LoopInit ==
  /\ \E l \in Loops :
        lp = [kind |-> l.kind, src |-> l.src, dst |-> l.dst, joined |-> FALSE,
              reordered |-> FALSE]
  /\ coL \in ConstraintLists(NDof) \cup RepeatingLists
  /\ lpc = [i \in 1..Len(coL) |-> IF lp.kind = "Mult_zero" THEN "write" ELSE "read"]
  /\ ltmp = [i \in 1..Len(coL) |-> 0]
  /\ mem = [s \in Slots \cup {"subvec"} |->
              IF s = "subvec" THEN [i \in 1..Len(coL) |-> 2 * MaxVal + NDof + i]
              ELSE IF s \in {"sx", "sX"} THEN [i \in 1..NDof |-> MaxVal + i]
              ELSE [i \in 1..NDof |-> MaxVal]]
  /\ coPre = mem
  /\ coA = NoOperator
  /\ coOp = "none"
  /\ coN = 0
  /\ ArrIdle
  /\ TmopIdle
  /\ FormFresh
  /\ cfg = [hasP |-> FALSE, integType |-> "Acrotensor", useMPI |-> FALSE, ess |-> <<>>]

\* iteration i loads its source entry
Loop_Read ==
  \E i \in 1..Len(lpc) :
    /\ lpc[i] = "read"
    /\ \E loc \in ReadLocs(lp, coL, i) : ltmp' = [ltmp EXCEPT ![i] = At(mem[loc[1]], loc[2])]
    /\ lpc' = [lpc EXCEPT ![i] = "write"]
    /\ UNCHANGED <<tmopVars, arrVars, formVars, coVars, lp>>

\* iteration i stores to its destination entry
Loop_Write ==
  \E i \in 1..Len(lpc) :
    /\ lpc[i] = "write"
    /\ \E loc \in {WriteLoc(lp, coL, i)} : mem' = [mem EXCEPT ![loc[1]][loc[2] + 1] = ltmp[i]]
    /\ lpc' = [lpc EXCEPT ![i] = "done"]
    /\ lp' = [lp EXCEPT !.reordered = @ \/ \E j \in 1..(i - 1) : lpc[j] # "done"]
    /\ UNCHANGED <<tmopVars, arrVars, formVars, coA, coL, coOp, coPre, coN, ltmp>>

\* the end of the parallel region: every iteration has finished
Loop_Join ==
  /\ lp.kind # "none"
  /\ ~lp.joined
  /\ \A i \in 1..Len(lpc) : lpc[i] = "done"
  /\ lp' = [lp EXCEPT !.joined = TRUE]
  /\ UNCHANGED <<tmopVars, arrVars, formVars, coVars, lpc, ltmp>>

LoopNext == Loop_Read \/ Loop_Write \/ Loop_Join

SpecLoop == LoopInit /\ [][LoopNext]_vars

\* ---- the TMOP gradient dispatch
\* TMOP_Integrator::AddMultGradPA_2D(X, R, C)
TMOP_AddMultGradPA_2D ==
  /\ kern.kind # "abort"
  /\ pa' = [pa EXCEPT !.setup = TRUE]
  /\ kern' = Dispatch(pa.ndof, pa.nqpt)
  /\ UNCHANGED <<loopVars, arrVars, formVars, coVars>>

TmopSpecInit ==
  /\ TmopInit
  /\ LoopIdle
  /\ ArrIdle
  /\ FormFresh
  /\ cfg = [hasP |-> FALSE, integType |-> "Acrotensor", useMPI |-> FALSE, ess |-> <<>>]
  /\ mem = [s \in Slots |-> <<>>]
  /\ coA = NoOperator
  /\ coL = <<>>
  /\ coOp = "none"
  /\ coPre = mem
  /\ coN = 0

TmopNext == TMOP_AddMultGradPA_2D

SpecTMOP == TmopSpecInit /\ [][TmopNext]_vars

\* ---- two occa::Array objects on their own
ArraysInit ==
  /\ ArrInit
  /\ LoopIdle
  /\ TmopIdle
  /\ FormFresh
  /\ cfg = [hasP |-> FALSE, integType |-> "Acrotensor", useMPI |-> FALSE, ess |-> <<>>]
  /\ mem = [s \in Slots |-> <<>>]
  /\ coA = NoOperator
  /\ coL = <<>>
  /\ coOp = "none"
  /\ coPre = mem
  /\ coN = 0

SpecArray == ArraysInit /\ [][ArrNext]_vars

\* ---- the ConstrainedOperator alone, on drawn operators, lists and buffers
\* right-hand sides: a constant one and a ramp
RhsSet(n) == {[i \in 1..n |-> MaxVal], [i \in 1..n |-> i % (MaxVal + 1)]}

\* what the freshly allocated scratch buffers z and w may hold
ScratchSet(n) == {[i \in 1..n |-> 0], [i \in 1..n |-> MaxVal + i]}

\* ConstrainedOperator::ConstrainedOperator(A_, constraint_list_, own_A_)
COInit ==
  /\ coA \in {[kind |-> "matrix", name |-> k] : k \in OpKinds}
  /\ coL \in ConstraintLists(NDof)
  /\ \E xv \in VecSet(NDof, Vals), bv \in RhsSet(NDof), g \in ScratchSet(NDof) :
        mem = [s \in Slots |->
                 CASE s = "sx" -> xv
                   [] s = "sb" -> bv
                   [] s \in {"sz", "sw", "sy"} -> g
                   [] OTHER -> [i \in 1..NDof |-> 0]]
  /\ coOp = "none"
  /\ coPre = mem
  /\ coN = 0
  /\ ArrIdle
  /\ LoopIdle
  /\ TmopIdle
  /\ FormFresh
  /\ cfg = [hasP |-> FALSE, integType |-> "Acrotensor", useMPI |-> FALSE, ess |-> <<>>]

\* a call of Mult(x, y)
CO_Mult ==
  /\ coN < MaxOps
  /\ mem' = ConstrainedOperator_Mult(mem, coA, coL, "sx", "sy")
  /\ coOp' = "Mult"
  /\ coPre' = mem
  /\ coN' = coN + 1
  /\ UNCHANGED <<tmopVars, loopVars, arrVars, coA, coL, formVars>>

\* a call of EliminateRHS(x, b)
CO_EliminateRHS ==
  /\ coN < MaxOps
  /\ mem' = ConstrainedOperator_EliminateRHS(mem, coA, coL, "sx", "sb")
  /\ coOp' = "EliminateRHS"
  /\ coPre' = mem
  /\ coN' = coN + 1
  /\ UNCHANGED <<tmopVars, loopVars, arrVars, coA, coL, formVars>>

\* an exact solver: any X with ConstrainedOperator.Mult(X) = b, b the result
\* of the EliminateRHS call just made
CO_Solve ==
  /\ coOp = "EliminateRHS"
  /\ \E Xv \in VecSet(NDof, Vals) :
        LET m1 == ConstrainedOperator_Mult([mem EXCEPT !["sX"] = Xv], coA, coL, "sX", "sy")
        IN  /\ m1["sy"] = mem["sb"]
            /\ mem' = m1
  /\ coOp' = "Solve"
  /\ UNCHANGED <<tmopVars, loopVars, arrVars, coA, coL, coPre, coN, formVars>>

CONext == CO_Mult \/ CO_EliminateRHS

SpecCO == COInit /\ [][CONext]_vars

\* ---- elimination followed by an exact solve
\* boundary data: every 0 / MaxVal pattern
BoundaryData(n) == {[i \in 1..n |-> MaxVal * p[i]] : p \in [1..n -> {0, 1}]}

SolveInit ==
  /\ COInit
  /\ mem["sx"] \in BoundaryData(NDof)
  /\ mem["sz"] # [i \in 1..NDof |-> 0]

SolveNext == CO_EliminateRHS \/ CO_Solve

SpecSolve == SolveInit /\ [][SolveNext]_vars

\* ------------------------------------------------------------ claims C1-C3
\* x with the entries at the indices of L set to 0
ZeroedOn(x, L) == [i \in 1..Len(x) |-> IF (i - 1) \in IndexSet(L) THEN 0 ELSE x[i]]
\* 0 everywhere except x on the indices of L
KeptOn(x, L) == [i \in 1..Len(x) |-> IF (i - 1) \in IndexSet(L) THEN x[i] ELSE 0]
FreeSet(L, n) == (0..(n - 1)) \ IndexSet(L)

\* C1: after ConstrainedOperator(A, L).Mult(x) -> y, y[i] = x[i] on L and
\* y[j] = (A.Mult(z))[j] off L, z being x zeroed on L; for L empty y = A.Mult(x).
C1_MultContract ==
  coOp = "Mult" =>
    LET x == coPre["sx"]
        y == mem["sy"]
    IN  /\ \A i \in IndexSet(coL) : At(y, i) = At(x, i)
        /\ \A j \in FreeSet(coL, NDof) : At(y, j) = At(OperatorApply(coA, ZeroedOn(x, coL)), j)
        /\ (coL = <<>> => y = OperatorApply(coA, x))

\* C1 witness: a Mult with constrained and free indices, a non-zero constrained
\* entry, and a result that differs from the unconstrained A.Mult(x)
C1_Witness ==
  /\ coOp = "Mult"
  /\ IndexSet(coL) # {} /\ FreeSet(coL, NDof) # {}
  /\ \E i \in IndexSet(coL) : At(coPre["sx"], i) # 0
  /\ mem["sy"] # OperatorApply(coA, coPre["sx"])

\* C2: after EliminateRHS(x, b), b'[i] = x[i] on L and b'[j] = b[j] - (A.Mult(w))[j]
\* off L, w being x on L and 0 elsewhere; the entries of x off L do not influence b',
\* and x is not modified.
C2_EliminateRHSContract ==
  coOp = "EliminateRHS" =>
    LET x == coPre["sx"]
        b == coPre["sb"]
        Aw == OperatorApply(coA, KeptOn(x, coL))
    IN  /\ \A i \in IndexSet(coL) : At(mem["sb"], i) = At(x, i)
        /\ \A j \in FreeSet(coL, NDof) : At(mem["sb"], j) = At(b, j) - At(Aw, j)
        /\ mem["sx"] = x
        /\ \A j \in FreeSet(coL, NDof), v \in Vals :
              ConstrainedOperator_EliminateRHS([coPre EXCEPT !["sx"][j + 1] = v],
                                               coA, coL, "sx", "sb")["sb"] = mem["sb"]

\* C2 witness: an EliminateRHS whose boundary values change a free row of b
C2_Witness ==
  /\ coOp = "EliminateRHS"
  /\ IndexSet(coL) # {}
  /\ \E j \in FreeSet(coL, NDof) : At(mem["sb"], j) # At(coPre["sb"], j)
  /\ \E j \in FreeSet(coL, NDof) : At(coPre["sx"], j) # 0

\* C3: for a linear A, every X with ConstrainedOperator.Mult(X) = b', b' the result
\* of EliminateRHS(x, b), has X[i] = x[i] on L and (A.Mult(X))[j] = b[j] off L.
C3_EliminationRoundTrip ==
  (coOp = "Solve" /\ coA.name \in LinearKinds) =>
    LET X == mem["sX"]
        x == coPre["sx"]
        b == coPre["sb"]
    IN  /\ \A i \in IndexSet(coL) : At(X, i) = At(x, i)
        /\ \A j \in FreeSet(coL, NDof) : At(OperatorApply(coA, X), j) = At(b, j)

\* C3 witness: a solution found where the boundary values couple into a free row
C3_Witness ==
  /\ coOp = "Solve" /\ coA.name \in LinearKinds
  /\ IndexSet(coL) # {}
  /\ \E j \in FreeSet(coL, NDof) :
        At(OperatorApply(coA, KeptOn(coPre["sx"], coL)), j) # 0

\* ------------------------------------------------------------ claims C4-C8, C10
\* C4: Assemble is a one-way, idempotent transition: the call that sets
\* has_assembled leaves one specialized integrator per attached integrator, in
\* attachment order; once has_assembled is set, no call changes the specialized
\* list or clears the flag.
C4_AssembleIdempotent ==
  [][/\ (has_assembled => (has_assembled' /\ tbfi' = tbfi))
     /\ ((~has_assembled /\ has_assembled') =>
           /\ Len(tbfi') = Len(dbfi)
           /\ \A i \in 1..Len(dbfi) :
                 tbfi'[i].name = dbfi[i].name /\ tbfi'[i].coeff = dbfi[i].coeff)]_vars

\* C4 witness: Assemble entered on an already assembled form to which an
\* integrator was attached after the first Assemble
C4_Witness ==
  /\ call.op = "Assemble" /\ call.assembled
  /\ has_assembled
  /\ Len(tbfi) >= 1
  /\ Len(dbfi) > Len(tbfi)

\* the buffer a fresh form holding only integ computes
SingleAssembly(integ) ==
  ComputeElementMatrices([alloc |-> FALSE, dev |-> <<>>, host |-> <<>>], <<integ>>, "none").em.dev

\* C5: after ComputeElementMatrices with the integrators I1..IN (N >= 1) the buffer
\* is the element-wise sum of the single-integrator buffers, whatever it held before.
C5_AccumulationLinear ==
  (call.ranCEM /\ Len(tbfi) >= 1) =>
    element_matrices.dev =
      [k \in 1..EMLength |-> SumTo([n \in 1..Len(tbfi) |-> SingleAssembly(tbfi[n])[k]], Len(tbfi))]

\* C5 witness: a repeated ComputeElementMatrices with two different integrators,
\* on a buffer that already held their contributions
C5_Witness ==
  /\ call.op = "ComputeElementMatrices" /\ call.ranCEM
  /\ Len(tbfi) = 2 /\ tbfi[1] # tbfi[2]
  /\ call.emPre.alloc
  /\ call.emPre.host # [k \in 1..EMLength |-> 0]
  /\ element_matrices.dev # [k \in 1..EMLength |-> 0]

\* the last entry of the step log named op
StepOf(op) == CHOOSE k \in 1..Len(steps) : steps[k].op = op

\* C6: the complement-zeroing step of FormLinearSystem maps X to: 0 off the
\* constraint list, unchanged on it, when copy_interior is false and the list is
\* not empty; otherwise it leaves X unchanged.
C6_ComplementZeroing ==
  (call.op = "FormLinearSystem" /\ status = "ok") =>
    LET k == StepOf("zero")
        before == steps[k - 1].X
        after == steps[k].X
    IN  IF (~call.copy) /\ Len(cfg.ess) > 0
        THEN after = [i \in 1..Len(before) |->
                        IF (i - 1) \in IndexSet(cfg.ess) THEN before[i] ELSE 0]
        ELSE after = before

\* C6 witness: the step run with L = {1} on an X that is non-zero everywhere
C6_Witness ==
  /\ call.op = "FormLinearSystem" /\ status = "ok"
  /\ ~call.copy /\ cfg.ess = <<1>>
  /\ steps[StepOf("zero")].ran
  /\ \A i \in 1..Len(steps[StepOf("zero") - 1].X) : steps[StepOf("zero") - 1].X[i] # 0
  /\ Len(steps[StepOf("zero")].X) = NDof

\* C7: without a prolongation, once FormLinearSystem has run X shares x's storage
\* and B shares b's: what the call did to X and B (zeroing, EliminateRHS) and every
\* later write is seen through x and b, and RecoverFEMSolution writes nothing.
C7_AliasingPassThrough ==
  ((~cfg.hasP) /\ steps # <<>>) =>
    /\ ref["X"] = "sx" /\ ref["B"] = "sb"
    /\ mem["sx"] = mem[ref["X"]] /\ mem["sb"] = mem[ref["B"]]
    /\ ((call.op = "FormLinearSystem" /\ status = "ok") =>
          (mem["sx"] = steps[Len(steps)].X /\ mem["sb"] = steps[Len(steps)].B))
    /\ (call.op = "RecoverFEMSolution" => mem = coPre)

\* C7 witness: after FormLinearSystem zeroed and eliminated, a write made by the
\* caller changed the storage x and X share
C7_Witness ==
  /\ ~cfg.hasP /\ steps # <<>>
  /\ steps[StepOf("zero")].ran /\ steps[StepOf("EliminateRHS")].ran
  /\ steps[1].X # steps[Len(steps)].X
  /\ call.op = "write"
  /\ mem["sx"] # coPre["sx"]

\* whether FormSystemMatrix supports a handle of this type
Supported(type) ==
  type \in {"ANY_TYPE", "MFEM_SPARSEMAT"} \/ (type = "Hypre_ParCSR" /\ cfg.useMPI)

\* C8: FormSystemMatrix with an unsupported representation, on an assembled form
\* with integrators, ends in the fatal error with the element-matrix buffer and
\* the sparse structure as they were before the call.
C8_FailBeforeCommit ==
  (call.op = "FormSystemMatrix" /\ ~Supported(call.type) /\ call.assembled /\ call.ntbfi >= 1) =>
    (status = "abort" /\ element_matrices = call.emPre /\ spmat = call.spPre)

\* C10: ComputeElementMatrices and the matrix-free Mult only ever run on an
\* assembled form with a non-empty specialized-integrator list.
C10_DispatchBeforeUse ==
  (call.ranCEM \/ call.ranMult) => (call.assembled /\ call.ntbfi >= 1)


\* ---- C9
\* the two arrays refer to one allocation, and what is read through one slice
\* is what is read through the other
SameData ==
  /\ arr["a"].data = arr["b"].data
  /\ arr["a"].slice.buf = arr["b"].slice.buf
  /\ \A i \in 1..Len(SliceItems(arr["a"], bufs)) :
       i <= Len(SliceItems(arr["b"], bufs))
         => SliceItems(arr["a"], bufs)[i] = SliceItems(arr["b"], bufs)[i]

\* C9 (as amended): after a MakeRef, the two arrays keep referring to the same
\* underlying data, a write through one being read through the other, under
\* every sequence of Fill, Assign, Push/Pull and of Resize to layouts of the
\* same device whose byte count does not exceed the size of the array's data.
C9_AliasesShareWithinCapacity == (linked /\ ~grown) => SameData

\* aliased arrays, one of them resized within the capacity and written through
C9_Witness ==
  /\ linked
  /\ ~grown
  /\ arr["a"].slice.len # arr["b"].slice.len
  /\ arr["a"].slice.len >= ItemSize
  /\ arr["b"].slice.len >= ItemSize
  /\ SliceItems(arr["a"], bufs)[1] \in ItemVals

\* C9 (as stated): after a MakeRef, the two arrays keep referring to the same
\* underlying data under every sequence of Fill, Assign, Push/Pull and Resize
\* to any layout.
C9_AliasesShareUnderAnyResize == linked => SameData


\* ---- C11
\* the steps of the last FormLinearSystem, in the order they were taken
StepNames == [k \in 1..Len(steps) |-> steps[k].op]

\* the order of the steps, the conditions of the zeroing and of EliminateRHS, and
\* what the call leaves on the constraint list; bcOnMatrixFree tells on which
\* representation EliminateBC is taken to run
StepOrder(bcOnMatrixFree) ==
  (call.op = "FormLinearSystem" /\ status = "ok") =>
    LET x0 == IF cfg.hasP THEN Restrict(coPre["sx"]) ELSE coPre["sx"]
    IN  /\ StepNames = <<"FormSystemMatrix", IF cfg.hasP THEN "transform" ELSE "alias",
                         "EliminateBC", "zero", "EliminateRHS">>
        /\ steps[2].X = x0
        /\ steps[3].ran = (bcOnMatrixFree = (call.type = "ANY_TYPE"))
        /\ steps[4].ran = ((~call.copy) /\ Len(cfg.ess) > 0)
        /\ steps[5].ran = (call.type = "ANY_TYPE")
        /\ \A k \in 3..5 : (~steps[k].ran) => (steps[k].X = steps[k - 1].X /\ steps[k].B = steps[k - 1].B)
        /\ mem[ref["B"]] = steps[5].B /\ mem[ref["X"]] = steps[5].X
        /\ (call.type = "ANY_TYPE" =>
              \A j \in 1..Len(cfg.ess) :
                 /\ At(mem[ref["B"]], cfg.ess[j]) = At(mem[ref["X"]], cfg.ess[j])
                 /\ At(mem[ref["X"]], cfg.ess[j]) = At(x0, cfg.ess[j]))

\* C11 (as amended): FormLinearSystem runs FormSystemMatrix, then the transform or
\* aliasing of X and B, then EliminateBC when the representation is an explicit
\* matrix (not the matrix-free one), then the complement-zeroing of X (only if
\* copy_interior is false and L is not empty), and on the matrix-free
\* representation it ends with EliminateRHS as the last write to B, leaving
\* B[i] = X[i] = x's boundary value on L.
C11_StepOrder == StepOrder(FALSE)

\* C11 witness: a matrix-free FormLinearSystem that zeroed X off a non-empty list
\* and whose EliminateRHS changed B
C11_Witness ==
  /\ call.op = "FormLinearSystem" /\ status = "ok"
  /\ call.type = "ANY_TYPE"
  /\ Len(cfg.ess) = 2
  /\ steps[4].ran /\ steps[5].ran
  /\ steps[4].X # steps[3].X
  /\ steps[5].B # steps[4].B

\* C11 (as stated): the same, with EliminateBC run when the chosen representation
\* is the matrix-free one.
C11_StepOrderAsStated == StepOrder(TRUE)


\* ---- C12
\* Layout.size * item_size == size(slice) <= size(data), for every array
SizeInvariant ==
  \A n \in ArrayNames :
    /\ arr[n].layout.size * ItemSize = arr[n].slice.len
    /\ arr[n].slice.len <= bufs[arr[n].data].size
    /\ arr[n].slice.buf = arr[n].data

\* a Resize of any array to any layout allocates exactly when the data is smaller
\* than the new byte count or on another device; otherwise it keeps the data and
\* the allocations and takes the slice of new_bytes bytes of that data
ReallocOnlyWhenNeeded ==
  \A n \in ArrayNames, lt \in Layouts :
    LET r == ResizeData(arr[n], bufs, lt)
        needed == bufs[arr[n].data].size < lt.size * ItemSize \/ bufs[arr[n].data].dev # lt.dev
    IN  /\ (r.bufs # bufs) = needed
        /\ (r.arr.data # arr[n].data) = needed
        /\ r.arr.slice = [buf |-> r.arr.data, len |-> lt.size * ItemSize]
        /\ r.bufs[r.arr.data].dev = lt.dev

\* C12: after construction and after every sequence of Resize and MakeRef (and
\* writes), every Array has Layout.size * item_size == size(slice) <= size(data),
\* and Resize reallocates only when the capacity is too small or the device
\* differs, re-slicing the existing data otherwise.
C12_SizeInvariant == SizeInvariant /\ ReallocOnlyWhenNeeded

\* C12 witness: after a MakeRef one array was reallocated and then resized within
\* its capacity, its slice now being a proper part of its data
C12_Witness ==
  /\ linked /\ grown
  /\ arr["a"].data # arr["b"].data
  /\ arr["a"].slice.len >= ItemSize
  /\ arr["a"].slice.len < bufs[arr["a"].data].size
  /\ arr["b"].slice.len = bufs[arr["b"].data].size


\* ---- C13
\* the indices of the list are pairwise distinct
Distinct(L) == \A i \in 1..Len(L), j \in 1..Len(L) : i # j => L[i] # L[j]

\* no two iterations write one location, and no iteration reads a location
\* another iteration writes
NoConflict(l, L) ==
  \A i \in 1..Len(L), j \in 1..Len(L) :
    i # j => /\ WriteLoc(l, L, i) # WriteLoc(l, L, j)
             /\ WriteLoc(l, L, j) \notin ReadLocs(l, L, i)

\* C13: on a constraint list of pairwise-distinct valid indices, in each loop of
\* ConstrainedOperator::Mult, ConstrainedOperator::EliminateRHS and the complement
\* zeroing, no two iterations write the same location and none reads what another
\* writes, and whatever the interleaving the buffers end as the sequential loop
\* leaves them.
C13_RaceFree ==
  (lp.kind # "none" /\ Distinct(coL)) =>
    /\ NoConflict(lp, coL)
    /\ (lp.joined => mem = Sequential(lp, coPre, coL))

\* C13 witness: a loop over every index that has joined after an iteration wrote
\* before an earlier one, and that changed its destination
C13_Witness ==
  /\ lp.kind = "InitRHS_scatter"
  /\ lp.joined /\ lp.reordered
  /\ Distinct(coL) /\ Len(coL) = NDof
  /\ mem # coPre


\* ---- C14
\* C14: for all sizes D1D >= 1 and Q1D >= 1 of PA.maps, AddMultGradPA_2D runs a
\* specialized kernel <d, q, 1> only when d = D1D and q = Q1D, and every other
\* pair of sizes reaches the generic kernel behind the check D1D <= MAX_D1D and
\* Q1D <= MAX_Q1D; so no two pairs of sizes run the same specialized kernel.
C14_DispatchFaithful ==
  /\ (kern.kind = "specialized" => (kern.T_D1D = pa.ndof /\ kern.T_Q1D = pa.nqpt))
  /\ (kern.kind \in {"generic", "abort"} =>
        ~(pa.ndof \in 2..5 /\ pa.nqpt \in 1..6))
  /\ (kern.kind = "generic" => (pa.ndof <= MAX_D1D /\ pa.nqpt <= MAX_Q1D))
  /\ (kern.kind = "abort" => (pa.ndof > MAX_D1D \/ pa.nqpt > MAX_Q1D))

====
